---- MODULE Spec2Model ----
(***************************************************************************)
(* A model of generate_stats.py: the commit-log statistics pipeline        *)
(* (analyze_git_history, create_musical_representation,                    *)
(* generate_summary_report) as main() runs it.                             *)
(*                                                                         *)
(* A Python str is a sequence of one-character strings, so that split,     *)
(* replace, lower, the substring test, the ISO-8601 parse, strftime and    *)
(* the ordering of str are computed character by character.  A dict is a   *)
(* sequence of <<key, value>> pairs in insertion order.  A float that the  *)
(* program computes from integers is the exact fraction <<num, den>>.      *)
(***************************************************************************)
EXTENDS Integers, Sequences, FiniteSets, TLC

VARIABLES lines, i, commits, stats, today, j, musical_data, report, pc, err

vars == <<lines, i, commits, stats, today, j, musical_data, report, pc, err>>

-----------------------------------------------------------------------------
(* Bounds of the explored inputs.                                          *)

\* longest log drawn freely from SampleLines
MaxLines == 2
\* longest log of the weekly family (one commit per pool date)
MaxWeekLog == 12

-----------------------------------------------------------------------------
(* str                                                                     *)

\* the ASCII characters of code points 32 to 95 and 97 to 122
AsciiLow == <<" ", "!", "\"", "#", "$", "%", "&", "'", "(", ")", "*", "+", ",", "-", ".", "/", "0", "1", "2", "3", "4", "5", "6", "7", "8", "9", ":", ";", "<", "=", ">", "?", "@", "A", "B", "C", "D", "E", "F", "G", "H", "I", "J", "K", "L", "M", "N", "O", "P", "Q", "R", "S", "T", "U", "V", "W", "X", "Y", "Z", "[", "\\", "]", "^", "_">>

AsciiLetters == <<"a", "b", "c", "d", "e", "f", "g", "h", "i", "j", "k", "l", "m", "n", "o", "p", "q", "r", "s", "t", "u", "v", "w", "x", "y", "z">>

OrdTable ==
    [c \in {AsciiLow[k] : k \in 1..Len(AsciiLow)} \cup {AsciiLetters[k] : k \in 1..Len(AsciiLetters)} |->
        IF \E k \in 1..Len(AsciiLow) : AsciiLow[k] = c
        THEN 31 + (CHOOSE k \in 1..Len(AsciiLow) : AsciiLow[k] = c)
        ELSE 96 + (CHOOSE k \in 1..Len(AsciiLetters) : AsciiLetters[k] = c)]

ord(c) == OrdTable[c]

chr(n) == IF n > 96 THEN AsciiLetters[n - 96] ELSE AsciiLow[n - 31]

NL == "\n"

Whitespace == {" ", NL, "\t"}

Max(a, b) == IF a >= b THEN a ELSE b

Min(a, b) == IF a <= b THEN a ELSE b

\* s[a:b] for 0 <= a, with Python's clamping of the end
Slice(s, a, b) == SubSeq(s, a + 1, Min(b, Len(s)))

\* str.lower() on ASCII
LowerChar(c) == IF ord(c) >= ord("A") /\ ord(c) <= ord("Z") THEN chr(ord(c) + 32) ELSE c

lower(s) == [k \in 1..Len(s) |-> LowerChar(s[k])]

\* sub in s
contains(s, sub) == \E k \in 0..(Len(s) - Len(sub)) : SubSeq(s, k + 1, k + Len(sub)) = sub

\* s.find(c): the 0-based index of the first c, -1 when there is none
find(s, c) ==
    IF \E k \in 1..Len(s) : s[k] = c
    THEN (CHOOSE k \in 1..Len(s) : s[k] = c /\ \A m \in 1..(k - 1) : s[m] # c) - 1
    ELSE -1

\* s.split(sep) for a one-character separator
RECURSIVE split(_, _)
split(s, sep) ==
    IF find(s, sep) = -1 THEN <<s>>
    ELSE <<Slice(s, 0, find(s, sep))>> \o split(Slice(s, find(s, sep) + 1, Len(s)), sep)

\* s.replace(old, new) for a one-character old
RECURSIVE replace(_, _, _)
replace(s, old, new) ==
    IF s = <<>> THEN <<>>
    ELSE (IF Head(s) = old THEN new ELSE <<Head(s)>>) \o replace(Tail(s), old, new)

\* s.strip()
RECURSIVE strip(_)
strip(s) ==
    IF s = <<>> THEN s
    ELSE IF Head(s) \in Whitespace THEN strip(Tail(s))
    ELSE IF s[Len(s)] \in Whitespace THEN strip(SubSeq(s, 1, Len(s) - 1))
    ELSE s

\* a < b on str: code point order, a proper prefix first
RECURSIVE StrLess(_, _)
StrLess(a, b) ==
    IF b = <<>> THEN FALSE
    ELSE IF a = <<>> THEN TRUE
    ELSE IF Head(a) # Head(b) THEN ord(Head(a)) < ord(Head(b))
    ELSE StrLess(Tail(a), Tail(b))

IsDigit(c) == c \in {"0", "1", "2", "3", "4", "5", "6", "7", "8", "9"}

AllDigits(s) == \A k \in 1..Len(s) : IsDigit(s[k])

\* int(s) for a string of decimal digits
RECURSIVE int(_)
int(s) == IF s = <<>> THEN 0 ELSE 10 * int(SubSeq(s, 1, Len(s) - 1)) + (ord(s[Len(s)]) - ord("0"))

\* the decimal digits of n >= 0, zero-padded to at least width characters
RECURSIVE zfill(_, _)
zfill(n, width) ==
    IF n < 10 /\ width <= 1 THEN <<chr(ord("0") + n)>>
    ELSE zfill(n \div 10, width - 1) \o <<chr(ord("0") + (n % 10))>>

-----------------------------------------------------------------------------
(* datetime                                                                *)

IsLeap(y) == y % 4 = 0 /\ (y % 100 # 0 \/ y % 400 = 0)

DaysInMonthTable == <<31, 28, 31, 30, 31, 30, 31, 31, 30, 31, 30, 31>>

DaysInMonth(y, m) == IF m = 2 /\ IsLeap(y) THEN 29 ELSE DaysInMonthTable[m]

DaysBeforeYear(y) == (y - 1) * 365 + (y - 1) \div 4 - (y - 1) \div 100 + (y - 1) \div 400

RECURSIVE DaysBeforeMonth(_, _)
DaysBeforeMonth(y, m) == IF m = 1 THEN 0 ELSE DaysBeforeMonth(y, m - 1) + DaysInMonth(y, m - 1)

\* date.toordinal(): 1 for 0001-01-01
toordinal(d) == DaysBeforeYear(d.year) + DaysBeforeMonth(d.year, d.month) + d.day

\* date.weekday(): Monday is 0
weekday(d) == (toordinal(d) + 6) % 7

NoDate == [ok |-> FALSE, year |-> 0, month |-> 0, day |-> 0,
           hour |-> 0, minute |-> 0, second |-> 0, tzinfo |-> <<>>]

\* HH[:MM[:SS[.fff[fff]]]] as fromisoformat reads a time or an offset;
\* <<>> when malformed, else <<hh, mm, ss>>
ParseHhMmSs(t) ==
    LET two(p) == Slice(t, p, p + 2)
        okTwo(p) == Len(two(p)) = 2 /\ AllDigits(two(p))
        frac(p) == Slice(t, p + 1, Len(t))
        okEnd(p) == \/ Len(t) = p
                    \/ /\ t[p + 1] = "."
                       /\ Len(frac(p)) \in {3, 6}
                       /\ AllDigits(frac(p))
    IN  IF ~okTwo(0) THEN <<>>
        ELSE IF Len(t) = 2 THEN <<int(two(0)), 0, 0>>
        ELSE IF t[3] # ":" \/ ~okTwo(3) THEN <<>>
        ELSE IF Len(t) = 5 THEN <<int(two(0)), int(two(3)), 0>>
        ELSE IF t[6] # ":" \/ ~okTwo(6) THEN <<>>
        ELSE IF okEnd(8) THEN <<int(two(0)), int(two(3)), int(two(6))>>
        ELSE <<>>

\* datetime.fromisoformat(s): YYYY-MM-DD[*HH[:MM[:SS[.fff[fff]]]][+HH:MM[:SS]]],
\* the format every CPython version since 3.7 reads; ok is FALSE where it raises
fromisoformat(s) ==
    LET dstr == Slice(s, 0, 10)
        tstr == Slice(s, 11, Len(s))
        okDate == /\ Len(dstr) = 10
                  /\ dstr[5] = "-" /\ dstr[8] = "-"
                  /\ AllDigits(Slice(dstr, 0, 4))
                  /\ AllDigits(Slice(dstr, 5, 7))
                  /\ AllDigits(Slice(dstr, 8, 10))
        y == int(Slice(dstr, 0, 4))
        m == int(Slice(dstr, 5, 7))
        d == int(Slice(dstr, 8, 10))
        okYmd == y >= 1 /\ m \in 1..12 /\ d >= 1 /\ d <= DaysInMonth(y, m)
        \* tz_pos = (tstr.find('-') + 1 or tstr.find('+') + 1)
        tzPos == IF find(tstr, "-") + 1 # 0 THEN find(tstr, "-") + 1 ELSE find(tstr, "+") + 1
        timestr == IF tzPos > 0 THEN Slice(tstr, 0, tzPos - 1) ELSE tstr
        tzstr == Slice(tstr, tzPos, Len(tstr))
        tm == ParseHhMmSs(timestr)
        tz == ParseHhMmSs(tzstr)
        sign == IF tstr[tzPos] = "-" THEN -1 ELSE 1
        okTime == tm # <<>> /\ tm[1] <= 23 /\ tm[2] <= 59 /\ tm[3] <= 59
        okTz == /\ Len(tzstr) \in {5, 8, 15}
                /\ tz # <<>>
                /\ tz[1] * 60 + tz[2] < 24 * 60
    IN  IF ~okDate THEN NoDate
        ELSE IF ~okYmd THEN NoDate
        ELSE IF Len(s) = 10
        THEN [ok |-> TRUE, year |-> y, month |-> m, day |-> d,
              hour |-> 0, minute |-> 0, second |-> 0, tzinfo |-> <<>>]
        ELSE IF Len(tstr) < 2 THEN NoDate
        ELSE IF ~okTime THEN NoDate
        ELSE IF tzPos = 0
        THEN [ok |-> TRUE, year |-> y, month |-> m, day |-> d,
              hour |-> tm[1], minute |-> tm[2], second |-> tm[3], tzinfo |-> <<>>]
        ELSE IF ~okTz THEN NoDate
        ELSE [ok |-> TRUE, year |-> y, month |-> m, day |-> d,
              hour |-> tm[1], minute |-> tm[2], second |-> tm[3],
              tzinfo |-> <<sign * (tz[1] * 60 + tz[2])>>]

\* date.strftime('%Y-%m-%d')
StrftimeDay(d) == zfill(d.year, 4) \o <<"-">> \o zfill(d.month, 2) \o <<"-">> \o zfill(d.day, 2)

WeekdayNames == <<"Monday", "Tuesday", "Wednesday", "Thursday", "Friday", "Saturday", "Sunday">>

\* date.strftime('%A')
StrftimeWeekdayName(d) == WeekdayNames[weekday(d) + 1]

\* %U: week of the year with Sunday as the first day of the week; the days
\* before the first Sunday are week 0
WeekOfYear(d) ==
    LET yday == toordinal(d) - toordinal([year |-> d.year, month |-> 1, day |-> 1])
        wday == (weekday(d) + 1) % 7
    IN  (yday + 7 - wday) \div 7

\* date.strftime('%Y-W%U')
StrftimeWeek(d) == zfill(d.year, 4) \o <<"-", "W">> \o zfill(WeekOfYear(d), 2)

-----------------------------------------------------------------------------
(* dict, defaultdict(int) and exact fractions                              *)

Keys(d) == [k \in 1..Len(d) |-> d[k][1]]

Has(d, key) == \E k \in 1..Len(d) : d[k][1] = key

Get(d, key) == d[CHOOSE k \in 1..Len(d) : d[k][1] = key][2]

\* d[key] = value: a new key goes last, an old key keeps its place
Put(d, key, value) ==
    IF Has(d, key)
    THEN [k \in 1..Len(d) |-> IF d[k][1] = key THEN <<key, value>> ELSE d[k]]
    ELSE Append(d, <<key, value>>)

\* Incr with d[key] = 1 written for d[key] += 1: C1 must tell them apart
IncrAssigns(d, key) == Put(d, key, 1)

\* d[key] += 1 on a defaultdict(int)
Incr(d, key) == Put(d, key, (IF Has(d, key) THEN Get(d, key) ELSE 0) + 1)

\* sum(d.values())
RECURSIVE SumValues(_)
SumValues(d) == IF d = <<>> THEN 0 ELSE d[1][2] + SumValues(Tail(d))

RECURSIVE Gcd(_, _)
Gcd(a, b) == IF b = 0 THEN a ELSE Gcd(b, a % b)

Abs(n) == IF n < 0 THEN -n ELSE n

\* the fraction n/d, d # 0, in lowest terms with a positive denominator
Frac(n, d) ==
    LET g == Gcd(Abs(n), Abs(d))
        s == IF d < 0 THEN -1 ELSE 1
    IN  <<(s * n) \div g, (s * d) \div g>>

FracLess(a, b) == a[1] * b[2] < b[1] * a[2]

-----------------------------------------------------------------------------
(* The log source: what the two git commands print                         *)

\* the six commit types, in the priority order of the classification
CommitTypes == <<"release", "fix", "feature", "merge", "test", "other">>

\* '%H|%an|%ae|%ad|%s|%b' of one commit
LogLine(hash, author, email, date, subject, body) ==
    hash \o <<"|">> \o author \o <<"|">> \o email \o <<"|">> \o date \o <<"|">> \o subject \o <<"|">> \o body

\* lines of git log output and of commit bodies, each alone or in any order
SampleLines == {
    <<>>,
    <<"h", "0", "|", "A", "l", "|", "a", "l", "@", "x">>,
    <<"h", "1", "|", "A", "l", "|", "a", "l", "@", "x", "|", "2", "0", "2", "4", "-", "0", "2", "-", "1", "0", "T", "0", "9", ":", "0", "0", ":", "0", "0", "Z", "|", "F", "i", "x", " ", "r", "e", "l", "e", "a", "s", "e", " ", "n", "o", "t", "e", "s", "|">>,
    <<"h", "2", "|", "B", "o", "|", "b", "o", "@", "x", "|", "2", "0", "2", "4", "-", "0", "2", "-", "0", "9", "T", "2", "3", ":", "3", "0", ":", "0", "0", "+", "0", "2", ":", "0", "0", "|", "f", "i", "x", ":", " ", "a", "d", "d", " ", "l", "o", "g", "g", "i", "n", "g", "|">>,
    <<"h", "3", "|", "A", "l", "|", "a", "l", "@", "x", "|", "2", "0", "2", "4", "-", "0", "3", "-", "1", "1", "T", "0", "8", ":", "0", "0", ":", "0", "0", "+", "0", "1", ":", "0", "0", "|", "M", "e", "r", "g", "e", " ", "l", "a", "t", "e", "s", "t", " ", "t", "e", "s", "t", "s", "|">>,
    <<"h", "4", "|", "B", "o", "|", "b", "o", "@", "x", "|", "2", "0", "2", "4", "-", "0", "3", "-", "1", "2", "T", "0", "8", ":", "0", "0", ":", "0", "0", "+", "0", "1", ":", "0", "0", "|", "A", "d", "d", "r", "e", "s", "s", " ", "r", "e", "v", "i", "e", "w", "|">>,
    <<"h", "5", "|", "B", "o", "|", "b", "o", "@", "x", "|", "2", "0", "2", "4", "-", "1", "3", "-", "0", "1", "T", "1", "0", ":", "0", "0", ":", "0", "0", "+", "0", "0", ":", "0", "0", "|", "r", "e", "l", "e", "a", "s", "e", " ", "2", "|">>,
    <<"h", "6", "|", "C", "y", "|", "c", "y", "@", "x", "|", "2", "0", "2", "3", "-", "1", "2", "-", "3", "1", "T", "2", "2", ":", "0", "0", ":", "0", "0", "-", "0", "5", ":", "0", "0", "|", "U", "p", "d", "a", "t", "e", " ", "d", "o", "c", "s", "|", "t", "a", "i", "l", "|", "m", "o", "r", "e">>,
    <<"h", "7", "|", "A", "l", "|", "a", "l", "@", "x", "|", "y", "e", "s", "t", "e", "r", "d", "a", "y", "|", "f", "i", "x", " ", "i", "t", "|">>,
    <<"h", "8", "|", "C", "y", "|", "c", "y", "@", "x", "|", "2", "0", "2", "4", "-", "0", "2", "-", "1", "0", "T", "0", "7", ":", "0", "0", ":", "0", "0", "Z", "|", "N", "e", "w", " ", "V", "E", "R", "S", "I", "O", "N", "|">>,
    <<"h", "9", "|", "B", "o", "|", "b", "o", "@", "x", "|", "2", "0", "2", "4", "-", "0", "1", "-", "1", "1", "T", "1", "0", ":", "0", "0", ":", "0", "0", "+", "0", "0", ":", "0", "0", "|", "t", "e", "s", "t", " ", "o", "n", "l", "y">>,
    <<"h", "a", "|", "C", "y", "|", "c", "y", "@", "x", "|", "2", "0", "2", "4", "-", "0", "2", "-", "1", "0", "T", "2", "1", ":", "0", "0", ":", "0", "0", "+", "0", "9", ":", "0", "0", "|", "I", "m", "p", "l", "e", "m", "e", "n", "t", " ", "p", "r", "e", "f", "i", "x", "|">> }

\* author dates, oldest first, of the weekly logs; 2023-12-24 and 2023-12-30
\* share a week, 2023-12-31 and 2024-01-01 are adjacent days of two weeks
WeekPool == <<
    <<"2", "0", "2", "3", "-", "1", "1", "-", "2", "5", "T", "0", "1", ":", "0", "0", ":", "0", "0", "+", "0", "0", ":", "0", "0">>, <<"2", "0", "2", "3", "-", "1", "1", "-", "2", "6", "T", "0", "2", ":", "0", "0", ":", "0", "0", "+", "0", "0", ":", "0", "0">>,
    <<"2", "0", "2", "3", "-", "1", "2", "-", "0", "3", "T", "0", "3", ":", "0", "0", ":", "0", "0", "+", "0", "0", ":", "0", "0">>, <<"2", "0", "2", "3", "-", "1", "2", "-", "1", "0", "T", "0", "4", ":", "0", "0", ":", "0", "0", "+", "0", "0", ":", "0", "0">>,
    <<"2", "0", "2", "3", "-", "1", "2", "-", "1", "7", "T", "0", "5", ":", "0", "0", ":", "0", "0", "+", "0", "0", ":", "0", "0">>, <<"2", "0", "2", "3", "-", "1", "2", "-", "2", "4", "T", "0", "6", ":", "0", "0", ":", "0", "0", "+", "0", "0", ":", "0", "0">>,
    <<"2", "0", "2", "3", "-", "1", "2", "-", "3", "0", "T", "0", "7", ":", "0", "0", ":", "0", "0", "+", "0", "0", ":", "0", "0">>, <<"2", "0", "2", "3", "-", "1", "2", "-", "3", "1", "T", "0", "8", ":", "0", "0", ":", "0", "0", "+", "0", "0", ":", "0", "0">>,
    <<"2", "0", "2", "4", "-", "0", "1", "-", "0", "1", "T", "0", "9", ":", "0", "0", ":", "0", "0", "Z">>,      <<"2", "0", "2", "4", "-", "0", "1", "-", "0", "6", "T", "1", "0", ":", "0", "0", ":", "0", "0", "Z">>,
    <<"2", "0", "2", "4", "-", "0", "1", "-", "0", "7", "T", "1", "1", ":", "0", "0", ":", "0", "0", "Z">>,      <<"2", "0", "2", "4", "-", "0", "1", "-", "1", "4", "T", "1", "2", ":", "0", "0", ":", "0", "0", "Z">>,
    <<"2", "0", "2", "4", "-", "0", "1", "-", "2", "1", "T", "1", "3", ":", "0", "0", ":", "0", "0", "Z">>,      <<"2", "0", "2", "4", "-", "0", "1", "-", "2", "8", "T", "1", "4", ":", "0", "0", ":", "0", "0", "Z">>,
    <<"2", "0", "2", "4", "-", "0", "2", "-", "0", "4", "T", "1", "5", ":", "0", "0", ":", "0", "0", "Z">> >>

AuthorPool == <<<<"A", "l">>, <<"B", "o">>, <<"C", "y">>, <<"D", "i">>, <<"E", "d">>, <<"F", "a">>, <<"G", "u">>>>

SubjectPool == <<
    <<"r", "e", "l", "e", "a", "s", "e", ":", " ", "f", "i", "x", " ", "t", "y", "p", "o">>, <<"f", "i", "x", ":", " ", "a", "d", "d", " ", "l", "o", "g", "g", "i", "n", "g">>, <<"A", "d", "d", " ", "l", "o", "g", "i", "n", " ", "p", "a", "g", "e">>,
    <<"M", "e", "r", "g", "e", " ", "b", "r", "a", "n", "c", "h", " ", "t", "e", "s", "t">>, <<"T", "e", "s", "t", " ", "t", "h", "e", " ", "p", "a", "r", "s", "e", "r">>, <<"U", "p", "d", "a", "t", "e", " ", "d", "o", "c", "s">>,
    <<"B", "u", "m", "p", " ", "v", "e", "r", "s", "i", "o", "n">>, <<"i", "m", "p", "l", "e", "m", "e", "n", "t", " ", "m", "e", "r", "g", "e">> >>

\* commit bodies: none, one line, and three lines with an empty one
BodyPool == <<<<>>, <<"C", "l", "o", "s", "e", "s", " ", "#", "1", "2">>, <<"W", "h", "y", ":", "\n", "\n", "s", "e", "e", " ", "a", "|", "b">>>>

\* the steps through WeekPool: ascending, shuffled, descending
Strides == {1, 4, Len(WeekPool) - 1}

\* the entries of the log of n commits that starts at pool date start and steps by stride
WeekLogLines(n, start, stride) ==
    [k \in 1..n |->
        LET p == (start + (k - 1) * stride) % Len(WeekPool)
        IN  LogLine(<<"w">> \o zfill(p, 2),
                    AuthorPool[((start + 2 * (k - 1)) % Len(AuthorPool)) + 1],
                    <<"e", "@", "x">>,
                    WeekPool[p + 1],
                    SubjectPool[((start + k) % Len(SubjectPool)) + 1],
                    BodyPool[((start + k) % Len(BodyPool)) + 1])]

\* '\n'.join(ls)
RECURSIVE JoinLines(_)
JoinLines(ls) ==
    IF ls = <<>> THEN <<>>
    ELSE IF Len(ls) = 1 THEN ls[1]
    ELSE ls[1] \o <<NL>> \o JoinLines(Tail(ls))

RECURSIVE SeqsUpTo(_, _)
SeqsUpTo(S, n) ==
    IF n = 0 THEN {<<>>}
    ELSE SeqsUpTo(S, n - 1) \cup {Append(s, x) : s \in SeqsUpTo(S, n - 1), x \in S}

\* stdout of git log --pretty=format:... --date=iso-strict --all
GitLogOutputs ==
    {JoinLines(ls) : ls \in SeqsUpTo(SampleLines, MaxLines)}
    \cup {JoinLines(WeekLogLines(n, start, stride)) :
            n \in 0..MaxWeekLog, start \in 0..(Len(WeekPool) - 1), stride \in Strides}

\* stdout of git diff-tree --no-commit-id --name-only -r <hash>
GitDiffTreeOutput(hash) ==
    IF hash \in {<<"h", "1">>, <<"h", "8">>, <<"w", "0", "0">>, <<"w", "0", "7">>} THEN <<"s", "r", "c", "/", "m", "a", "i", "n", ".", "p", "y", "\n", "R", "E", "A", "D", "M", "E", "\n">>
    ELSE IF hash \in {<<"h", "2">>, <<"w", "0", "1">>, <<"w", "0", "8">>} THEN <<"s", "r", "c", "/", "m", "a", "i", "n", ".", "p", "y", "\n", "d", "i", "s", "t", "/", "p", "k", "g", ".", "t", "a", "r", ".", "g", "z", "\n">>
    ELSE IF hash \in {<<"h", "4">>, <<"w", "0", "2">>} THEN <<"M", "a", "k", "e", "f", "i", "l", "e", "\n">>
    ELSE <<>>

\* run_git_command: the command's stdout, stripped
run_git_command(stdout) == strip(stdout)

\* datetime.now(): the local time, without tzinfo
Clock == {[ok |-> TRUE, year |-> 2024, month |-> 2, day |-> 10,
           hour |-> 12, minute |-> 30, second |-> 0, tzinfo |-> <<>>]}

-----------------------------------------------------------------------------
(* analyze_git_history                                                     *)

EmptyStats ==
    [total_commits |-> 0, authors |-> <<>>, commits_by_day |-> <<>>,
     commits_by_hour |-> <<>>, commit_types |-> <<>>, file_changes |-> <<>>,
     languages |-> <<>>, release_history |-> <<>>, productivity_score |-> <<>>]

\* ClassifyCommit with the feature test ahead of the fix test: C3 must tell
\* them apart
ClassifyCommitFeatureFirst(message) ==
    LET msg_lower == lower(message)
    IN  IF contains(msg_lower, <<"r", "e", "l", "e", "a", "s", "e">>) \/ contains(msg_lower, <<"v", "e", "r", "s", "i", "o", "n">>) THEN "release"
        ELSE IF contains(msg_lower, <<"a", "d", "d">>) \/ contains(msg_lower, <<"i", "m", "p", "l", "e", "m", "e", "n", "t">>) THEN "feature"
        ELSE IF contains(msg_lower, <<"f", "i", "x">>) THEN "fix"
        ELSE IF contains(msg_lower, <<"m", "e", "r", "g", "e">>) THEN "merge"
        ELSE IF contains(msg_lower, <<"t", "e", "s", "t">>) THEN "test"
        ELSE "other"

\* the type whose counter the if/elif chain of the aggregation increments
ClassifyCommit(message) ==
    LET msg_lower == lower(message)
    IN  IF contains(msg_lower, <<"r", "e", "l", "e", "a", "s", "e">>) \/ contains(msg_lower, <<"v", "e", "r", "s", "i", "o", "n">>) THEN "release"
        ELSE IF contains(msg_lower, <<"f", "i", "x">>) THEN "fix"
        ELSE IF contains(msg_lower, <<"a", "d", "d">>) \/ contains(msg_lower, <<"i", "m", "p", "l", "e", "m", "e", "n", "t">>) THEN "feature"
        ELSE IF contains(msg_lower, <<"m", "e", "r", "g", "e">>) THEN "merge"
        ELSE IF contains(msg_lower, <<"t", "e", "s", "t">>) THEN "test"
        ELSE "other"

\* ParseDate without the replacement of Z: C2 must tell them apart
ParseDateKeepsZ(date_str) == fromisoformat(date_str)

\* date = datetime.fromisoformat(date_str.replace('Z', '+00:00')); ok is
\* FALSE where the bare except takes the continue
ParseDate(date_str) == fromisoformat(replace(date_str, "Z", <<"+", "0", "0", ":", "0", "0">>))

\* the lines the loop body turns into a commit
Accepts(line) ==
    /\ line # <<>>
    /\ Len(split(line, "|")) >= 5
    /\ ParseDate(split(line, "|")[4]).ok

MakeCommit(line) ==
    LET parts == split(line, "|")
        date == ParseDate(parts[4])
    IN  [hash |-> parts[1], author |-> parts[2], email |-> parts[3], date |-> date,
         message |-> parts[5], day |-> StrftimeDay(date), hour |-> date.hour,
         weekday |-> StrftimeWeekdayName(date)]

\* the loop over the files a commit changed
RECURSIVE CountFiles(_, _)
CountFiles(st, files) ==
    IF files = <<>> THEN st
    ELSE LET file == Head(files)
             ext == split(file, ".")[Len(split(file, "."))]
             st1 == IF file = <<>> THEN st
                    ELSE IF contains(file, <<".">>)
                    THEN [st EXCEPT !.file_changes = Incr(@, file), !.languages = Incr(@, ext)]
                    ELSE [st EXCEPT !.file_changes = Incr(@, file)]
         IN  CountFiles(st1, Tail(files))

\* the counter updates of one commit
UpdateStats(st, commit) ==
    LET ctype == ClassifyCommit(commit.message)
        st1 == [st EXCEPT !.total_commits = @ + 1,
                          !.authors = Incr(@, commit.author),
                          !.commits_by_day = Incr(@, commit.day),
                          !.commits_by_hour = Incr(@, commit.hour),
                          !.commit_types = Incr(@, ctype),
                          !.release_history =
                              IF ctype = "release"
                              THEN Append(@, [date |-> commit.day, message |-> commit.message])
                              ELSE @]
        files_changed == run_git_command(GitDiffTreeOutput(commit.hash))
    IN  CountFiles(st1, split(files_changed, NL))

\* (today - day_date).days for two datetimes without tzinfo
TimedeltaDays(a, b) ==
    ((toordinal(a) - toordinal(b)) * 86400
       + (a.hour - b.hour) * 3600 + (a.minute - b.minute) * 60 + (a.second - b.second))
    \div 86400

\* 1 + age_days / 30
DecayDenominator(age_days) == Frac(30 + age_days, 30)

\* weight = 1.0 / (1 + age_days / 30), where the denominator is not zero
Weight(age_days) == Frac(DecayDenominator(age_days)[2], DecayDenominator(age_days)[1])

\* count * weight
Score(count, age_days) == Frac(count * Weight(age_days)[1], Weight(age_days)[2])

-----------------------------------------------------------------------------
(* create_musical_representation                                           *)

\* the movements kept: sorted(commits_by_week.items())[-10:]
KeptWeeks == 10

note_map(commit_type) ==
    CASE commit_type = "release" -> "C5"
      [] commit_type = "feature" -> "A4"
      [] commit_type = "fix" -> "F4"
      [] commit_type = "merge" -> "D4"
      [] commit_type = "test" -> "G4"
      [] commit_type = "other" -> "C4"

instruments == <<"piano", "violin", "cello", "flute", "guitar">>

\* author_instruments with the authors enumerated from 1: C6 must tell them
\* apart
author_instruments_from_one(st) ==
    [k \in 1..Len(st.authors) |->
        <<st.authors[k][1], instruments[(k % Len(instruments)) + 1]>>]

\* {author: instruments[i % len(instruments)] for i, author in enumerate(authors)}
author_instruments(st) ==
    [k \in 1..Len(st.authors) |->
        <<st.authors[k][1], instruments[((k - 1) % Len(instruments)) + 1]>>]

\* author_instruments.get(author, 'piano')
InstrumentOf(st, author) ==
    IF Has(author_instruments(st), author) THEN Get(author_instruments(st), author) ELSE "piano"

\* GroupByWeek with the week's list replaced instead of appended to: C4 must
\* tell them apart
RECURSIVE GroupByWeekReplaces(_, _)
GroupByWeekReplaces(d, cs) ==
    IF cs = <<>> THEN d
    ELSE GroupByWeekReplaces(Put(d, StrftimeWeek(Head(cs).date), <<Head(cs)>>), Tail(cs))

\* commits_by_week[week].append(commit), commit by commit
RECURSIVE GroupByWeek(_, _)
GroupByWeek(d, cs) ==
    IF cs = <<>> THEN d
    ELSE LET week == StrftimeWeek(Head(cs).date)
         IN  GroupByWeek(Put(d, week, (IF Has(d, week) THEN Get(d, week) ELSE <<>>) \o <<Head(cs)>>),
                         Tail(cs))

\* sorted(d.items()) of a dict with str keys
RECURSIVE SortedItems(_)
SortedItems(d) ==
    IF d = <<>> THEN <<>>
    ELSE LET m == CHOOSE k \in 1..Len(d) : \A n \in 1..Len(d) : ~StrLess(d[n][1], d[k][1])
         IN  <<d[m]>> \o SortedItems(SubSeq(d, 1, m - 1) \o SubSeq(d, m + 1, Len(d)))

\* s[-n:]
LastN(s, n) == SubSeq(s, Max(1, Len(s) - n + 1), Len(s))

\* s[:n]
FirstN(s, n) == SubSeq(s, 1, Min(n, Len(s)))

\* MovementWeeks without the sort: C5 must tell them apart
MovementWeeksUnsorted(cs) == LastN(GroupByWeek(<<>>, cs), KeptWeeks)

\* the weeks that become movements, with their commits
MovementWeeks(cs) == LastN(SortedItems(GroupByWeek(<<>>, cs)), KeptWeeks)

\* NoteType without the 'version' keyword: C10 must tell them apart
NoteTypeWithoutVersion(message) ==
    LET msg_lower == lower(message)
    IN  IF contains(msg_lower, <<"r", "e", "l", "e", "a", "s", "e">>) THEN "release"
        ELSE IF contains(msg_lower, <<"f", "i", "x">>) THEN "fix"
        ELSE IF contains(msg_lower, <<"a", "d", "d">>) \/ contains(msg_lower, <<"i", "m", "p", "l", "e", "m", "e", "n", "t">>) THEN "feature"
        ELSE IF contains(msg_lower, <<"m", "e", "r", "g", "e">>) THEN "merge"
        ELSE IF contains(msg_lower, <<"t", "e", "s", "t">>) THEN "test"
        ELSE "other"

\* the commit_type the if/elif chain of the note loop assigns
NoteType(message) ==
    LET msg_lower == lower(message)
    IN  IF contains(msg_lower, <<"r", "e", "l", "e", "a", "s", "e">>) \/ contains(msg_lower, <<"v", "e", "r", "s", "i", "o", "n">>) THEN "release"
        ELSE IF contains(msg_lower, <<"f", "i", "x">>) THEN "fix"
        ELSE IF contains(msg_lower, <<"a", "d", "d">>) \/ contains(msg_lower, <<"i", "m", "p", "l", "e", "m", "e", "n", "t">>) THEN "feature"
        ELSE IF contains(msg_lower, <<"m", "e", "r", "g", "e">>) THEN "merge"
        ELSE IF contains(msg_lower, <<"t", "e", "s", "t">>) THEN "test"
        ELSE "other"

MakeNote(st, commit) ==
    LET commit_type == NoteType(commit.message)
    IN  [pitch |-> note_map(commit_type),
         duration |-> IF commit_type = "release" THEN Frac(1, 1) ELSE Frac(1, 2),
         instrument |-> InstrumentOf(st, commit.author),
         velocity |-> IF commit_type = "release" THEN 100 ELSE 80,
         time |-> Frac(commit.hour, 24)]

MakeMovement(st, item) ==
    [name |-> <<"W", "e", "e", "k", " ", "o", "f", " ">> \o item[1],
     notes |-> [k \in 1..Len(item[2]) |-> MakeNote(st, item[2][k])]]

create_musical_representation(cs, st) ==
    [title |-> "The Para Symphony - A Git History in Music",
     tempo |-> 120,
     time_signature |-> "4/4",
     movements |-> [k \in 1..Len(MovementWeeks(cs)) |-> MakeMovement(st, MovementWeeks(cs)[k])]]

-----------------------------------------------------------------------------
(* generate_summary_report: a line is its fixed text and the values        *)
(* formatted into it                                                       *)

TextLine(text) == [text |-> text, args |-> <<>>]

\* sorted(d.items(), key=lambda x: x[1], reverse=True): stable
RECURSIVE SortedByCountDesc(_)
SortedByCountDesc(d) ==
    IF d = <<>> THEN <<>>
    ELSE LET m == CHOOSE k \in 1..Len(d) :
                    /\ \A n \in 1..Len(d) : d[n][2] <= d[k][2]
                    /\ \A n \in 1..(k - 1) : d[n][2] < d[k][2]
         IN  <<d[m]>> \o SortedByCountDesc(SubSeq(d, 1, m - 1) \o SubSeq(d, m + 1, Len(d)))

\* max(d.items(), key=lambda x: x[1]): the first item of the largest count
MaxItem(d) == SortedByCountDesc(d)[1]

\* sorted(keys) of str keys
RECURSIVE SortedStrs(_)
SortedStrs(s) ==
    IF s = <<>> THEN <<>>
    ELSE LET m == CHOOSE k \in 1..Len(s) : \A n \in 1..Len(s) : ~StrLess(s[n], s[k])
         IN  <<s[m]>> \o SortedStrs(SubSeq(s, 1, m - 1) \o SubSeq(s, m + 1, Len(s)))

RECURSIVE SumOver(_, _)
SumOver(d, ks) == IF ks = <<>> THEN 0 ELSE Get(d, Head(ks)) + SumOver(d, Tail(ks))

\* max(values): <<>> where max() of an empty sequence raises ValueError
MaxOf(d) == IF d = <<>> THEN <<>> ELSE <<MaxItem(d)[2]>>

\* max_commits without the guard for an empty mapping: C7 must tell them apart
max_commits_unguarded(st) == MaxOf(st.commits_by_hour)

\* max(stats['commits_by_hour'].values()) if stats['commits_by_hour'] else 1
max_commits(st) == IF st.commits_by_hour # <<>> THEN MaxOf(st.commits_by_hour) ELSE <<1>>

Header ==
    << TextLine("="), TextLine("PARA GIT HISTORY: A COSMIC ANALYSIS"), TextLine("="), TextLine("") >>

Totals(st) ==
    << [text |-> "Total Commits: ", args |-> <<st.total_commits>>],
       [text |-> "Active Days: ", args |-> <<Len(st.commits_by_day)>>],
       [text |-> "Contributors: ", args |-> <<Len(st.authors)>>],
       TextLine("") >>

\* the top 5 authors, each with min(count // 10 + 1, 5) stars
TopContributors(st) ==
    LET top == FirstN(SortedByCountDesc(st.authors), 5)
    IN  <<TextLine("TOP STAR GAZERS:")>>
        \o [k \in 1..Len(top) |->
              [text |-> "  author: count commits stars",
               args |-> <<top[k][1], top[k][2], Min(top[k][2] \div 10 + 1, 5)>>]]
        \o <<TextLine("")>>

\* percentage = (count / total_typed) * 100; bar of int(percentage / 2) blocks
TypeDistribution(st) ==
    LET total_typed == SumValues(st.commit_types)
        byCount == SortedByCountDesc(st.commit_types)
    IN  <<TextLine("COMMIT CONSTELLATION TYPES:")>>
        \o [k \in 1..Len(byCount) |->
              [text |-> "  Ctype: bar percentage%",
               args |-> <<byCount[k][1],
                          (byCount[k][2] * 100) \div (2 * total_typed),
                          Frac(byCount[k][2] * 100, total_typed)>>]]
        \o <<TextLine("")>>

\* height = int((count / max_commits) * 8) of every third hour
HourChart(st) ==
    LET count(hour) == IF Has(st.commits_by_hour, hour) THEN Get(st.commits_by_hour, hour) ELSE 0
    IN  << TextLine("CODING HOURS (24h UTC):"),
           TextLine("  00 03 06 09 12 15 18 21 "),
           [text |-> "  hour_chart[::3]",
            args |-> [k \in 1..8 |-> (count(3 * (k - 1)) * 8) \div max_commits(st)[1]]],
           TextLine("") >>

Languages(st) ==
    LET top_langs == FirstN(SortedByCountDesc(st.languages), 10)
    IN  <<TextLine("LANGUAGE UNIVERSE:")>>
        \o [k \in 1..Len(top_langs) |->
              [text |-> "  .lang: count files touched", args |-> top_langs[k]]]
        \o <<TextLine("")>>

Releases(st) ==
    LET last == LastN(st.release_history, 5)
    IN  <<TextLine("RECENT STELLAR EVENTS (Releases):")>>
        \o [k \in 1..Len(last) |->
              [text |-> "  date: message", args |-> <<last[k].date, last[k].message>>]]
        \o <<TextLine("")>>

BrightestDay(st) ==
    IF st.commits_by_day # <<>>
    THEN <<[text |-> "Brightest Day", args |-> MaxItem(st.commits_by_day)]>>
    ELSE <<>>

\* the mean of the last 30 days present; 0 when there is none
RecentActivity(st) ==
    LET recent_days == LastN(SortedStrs(Keys(st.commits_by_day)), 30)
        recent_commits == SumOver(st.commits_by_day, recent_days)
        avg_recent == IF recent_days # <<>> THEN Frac(recent_commits, Len(recent_days)) ELSE Frac(0, 1)
    IN  <<[text |-> "Recent Activity", args |-> <<avg_recent>>]>>

HottestFile(st) ==
    IF st.file_changes # <<>>
    THEN <<[text |-> "Hottest File", args |-> MaxItem(st.file_changes)]>>
    ELSE <<>>

CosmicFacts(st) ==
    <<TextLine("COSMIC FACTS:")>> \o BrightestDay(st) \o RecentActivity(st) \o HottestFile(st)
    \o <<TextLine(""), TextLine("=")>>

\* the exception generate_summary_report raises on st, "none" when it returns
ReportError(st) ==
    IF st.commit_types # <<>> /\ SumValues(st.commit_types) = 0 THEN "ZeroDivisionError"
    ELSE IF max_commits(st) = <<>> THEN "ValueError"
    ELSE IF max_commits(st)[1] = 0 THEN "ZeroDivisionError"
    ELSE "none"

generate_summary_report(st) ==
    Header \o Totals(st) \o TopContributors(st) \o TypeDistribution(st) \o HourChart(st)
    \o Languages(st) \o Releases(st) \o CosmicFacts(st)

-----------------------------------------------------------------------------
(* main: the steps of one run                                              *)

Init ==
    /\ \E stdout \in GitLogOutputs : lines = split(run_git_command(stdout), NL)
    /\ i = 1
    /\ commits = <<>>
    /\ stats = EmptyStats
    /\ today = NoDate
    /\ j = 1
    /\ musical_data = <<>>
    /\ report = <<>>
    /\ pc = "parse"
    /\ err = "none"

\* one iteration of the loop over the log lines
ProcessLine ==
    /\ pc = "parse"
    /\ i <= Len(lines)
    /\ i' = i + 1
    /\ IF Accepts(lines[i])
       THEN /\ commits' = Append(commits, MakeCommit(lines[i]))
            /\ stats' = UpdateStats(stats, MakeCommit(lines[i]))
       ELSE UNCHANGED <<commits, stats>>
    /\ UNCHANGED <<lines, today, j, musical_data, report, pc, err>>

\* today = datetime.now(), once the log is consumed
ReadClock ==
    /\ pc = "parse"
    /\ i > Len(lines)
    /\ today' \in Clock
    /\ pc' = "score"
    /\ UNCHANGED <<lines, i, commits, stats, j, musical_data, report, err>>

\* one iteration of the productivity loop over commits_by_day.items()
ScoreDay ==
    /\ pc = "score"
    /\ j <= Len(stats.commits_by_day)
    /\ LET day == stats.commits_by_day[j][1]
           count == stats.commits_by_day[j][2]
           day_date == fromisoformat(day)
           age_days == TimedeltaDays(today, day_date)
       IN  IF ~day_date.ok
           THEN /\ err' = "ValueError"
                /\ pc' = "crashed"
                /\ UNCHANGED <<stats, j>>
           ELSE IF DecayDenominator(age_days)[1] = 0
           THEN /\ err' = "ZeroDivisionError"
                /\ pc' = "crashed"
                /\ UNCHANGED <<stats, j>>
           ELSE /\ stats' = [stats EXCEPT !.productivity_score = Put(@, day, Score(count, age_days))]
                /\ j' = j + 1
                /\ UNCHANGED <<pc, err>>
    /\ UNCHANGED <<lines, i, commits, today, musical_data, report>>

\* analyze_git_history returns; musical_data = create_musical_representation(commits, stats)
CreateMusical ==
    /\ pc = "score"
    /\ j > Len(stats.commits_by_day)
    /\ musical_data' = create_musical_representation(commits, stats)
    /\ pc' = "report"
    /\ UNCHANGED <<lines, i, commits, stats, today, j, report, err>>

\* report = generate_summary_report(stats)
GenerateReport ==
    /\ pc = "report"
    /\ IF ReportError(stats) # "none"
       THEN /\ err' = ReportError(stats)
            /\ pc' = "crashed"
            /\ UNCHANGED report
       ELSE /\ report' = generate_summary_report(stats)
            /\ pc' = "done"
            /\ UNCHANGED err
    /\ UNCHANGED <<lines, i, commits, stats, today, j, musical_data>>

Next == ProcessLine \/ ReadClock \/ ScoreDay \/ CreateMusical \/ GenerateReport

Spec == Init /\ [][Next]_vars

-----------------------------------------------------------------------------
(* Vocabulary of the properties                                            *)

\* the lines already consumed by the loop
Consumed == SubSeq(lines, 1, i - 1)

\* a line of at least 5 fields whose 4th field is an ISO-8601 date, Z read as +00:00
IsRecordLine(line) ==
    /\ Len(split(line, "|")) >= 5
    /\ fromisoformat(replace(split(line, "|")[4], "Z", <<"+", "0", "0", ":", "0", "0">>)).ok

CountWhere(s, P(_)) == Cardinality({n \in 1..Len(s) : P(s[n])})

\* d[key], 0 for an absent key
CountOf(d, key) == IF Has(d, key) THEN Get(d, key) ELSE 0

SixTypes == {CommitTypes[k] : k \in 1..Len(CommitTypes)}

\* the keyword categories in their priority order
Priority == <<
    <<"release", {<<"r", "e", "l", "e", "a", "s", "e">>, <<"v", "e", "r", "s", "i", "o", "n">>}>>,
    <<"fix", {<<"f", "i", "x">>}>>,
    <<"feature", {<<"a", "d", "d">>, <<"i", "m", "p", "l", "e", "m", "e", "n", "t">>}>>,
    <<"merge", {<<"m", "e", "r", "g", "e">>}>>,
    <<"test", {<<"t", "e", "s", "t">>}>> >>

Matching(message) ==
    LET low == lower(message)
    IN  {k \in 1..Len(Priority) : \E kw \in Priority[k][2] : contains(low, kw)}

\* the earliest category with a keyword in the message, other when there is none
FirstMatch(message) ==
    LET hit == Matching(message)
    IN  IF hit = {} THEN "other"
        ELSE Priority[CHOOSE k \in hit : \A n \in hit : k <= n][1]

AnalysisReturned == pc \in {"report", "done"} \/ (pc = "score" /\ j > Len(stats.commits_by_day))

MusicBuilt == pc \in {"report", "done"}

Movements == musical_data.movements

\* the week label in a movement's name, 'Week of <label>'
LabelOf(movement) == SubSeq(movement.name, Len(<<"W", "e", "e", "k", " ", "o", "f", " ">>) + 1, Len(movement.name))

WeekLabels == {StrftimeWeek(commits[n].date) : n \in 1..Len(commits)}

RetainedLabels == {LabelOf(Movements[k]) : k \in 1..Len(Movements)}

\* the commits of one week, in commit-stream order
CommitsOfWeek(label) == SelectSeq(commits, LAMBDA c : StrftimeWeek(c.date) = label)

RECURSIVE TotalNotes(_)
TotalNotes(ms) == IF ms = <<>> THEN 0 ELSE Len(Head(ms).notes) + TotalNotes(Tail(ms))

\* <<movement, position>> of every note
AllNotes == {kn \in (1..Len(Movements)) \X (1..Len(commits)) : kn[2] <= Len(Movements[kn[1]].notes)}

\* the commit a note was made from, when notes follow their week's commits
CommitOfNote(kn) == CommitsOfWeek(LabelOf(Movements[kn[1]]))[kn[2]]

NoteAt(kn) == Movements[kn[1]].notes[kn[2]]

\* the authors in the order of their first commit
RECURSIVE FirstAppearances(_, _)
FirstAppearances(seen, cs) ==
    IF cs = <<>> THEN seen
    ELSE FirstAppearances(
            (IF \E k \in 1..Len(seen) : seen[k] = Head(cs).author THEN seen
             ELSE Append(seen, Head(cs).author)),
            Tail(cs))

\* 0 for the first author to appear, 1 for the second, ...
AuthorIndex(author) ==
    (CHOOSE k \in 1..Len(FirstAppearances(<<>>, commits)) :
        FirstAppearances(<<>>, commits)[k] = author) - 1

\* (year, week of year) as one number that grows with time
WeekNumber(c) == c.date.year * 100 + WeekOfYear(c.date)

Retained(c) == StrftimeWeek(c.date) \in RetainedLabels

ReportHas(text) == \E k \in 1..Len(report) : report[k].text = text

\* today's whole-day distance from a day of commits_by_day
AgeOf(day) == toordinal(today) - toordinal(fromisoformat(day))

-----------------------------------------------------------------------------
(* C1: after any prefix of the log, total_commits is the number of commit  *)
(* records, and so is the sum of each of authors, commits_by_day,          *)
(* commits_by_hour and commit_types; each key counts exactly the records   *)
(* that carry it, and every type key is one of the six types.              *)
C1_CountedOnce ==
    /\ stats.total_commits = Len(commits)
    /\ SumValues(stats.authors) = Len(commits)
    /\ SumValues(stats.commits_by_day) = Len(commits)
    /\ SumValues(stats.commits_by_hour) = Len(commits)
    /\ SumValues(stats.commit_types) = Len(commits)
    /\ \A k \in 1..Len(stats.authors) :
          stats.authors[k][2] = CountWhere(commits, LAMBDA c : c.author = stats.authors[k][1])
    /\ \A k \in 1..Len(stats.commits_by_day) :
          stats.commits_by_day[k][2]
             = CountWhere(commits, LAMBDA c : c.day = stats.commits_by_day[k][1])
    /\ \A k \in 1..Len(stats.commits_by_hour) :
          stats.commits_by_hour[k][2]
             = CountWhere(commits, LAMBDA c : c.hour = stats.commits_by_hour[k][1])
    /\ \A k \in 1..Len(stats.commit_types) : stats.commit_types[k][1] \in SixTypes

\* a proper prefix of a log consumed, with two records of different types and a skipped line
C1_Witness ==
    /\ pc = "parse"
    /\ i <= Len(lines)
    /\ Len(commits) >= 2
    /\ Len(commits) < i - 1
    /\ Len(stats.commit_types) >= 2

(* C2: the number of commit records is the number of consumed lines that   *)
(* split on '|' into at least 5 fields with a parseable date in the 4th;   *)
(* the loop step of any other line changes neither stats nor commits and   *)
(* raises nothing.                                                         *)
C2_RecordsAreRecordLines ==
    /\ [](Len(commits) = CountWhere(Consumed, IsRecordLine))
    /\ [][(pc = "parse" /\ i <= Len(lines) /\ ~IsRecordLine(lines[i]))
            => (commits' = commits /\ stats' = stats /\ err' = "none" /\ pc' = "parse" /\ i' = i + 1)]_vars

\* a whole log consumed that held a record, a date written with Z, a line of
\* too few fields and a line of 5 fields with a malformed date
C2_Witness ==
    /\ pc = "score"
    /\ Len(commits) = 1
    /\ Len(lines) = 2
    /\ \E n \in 1..Len(lines) :
          Len(split(lines[n], "|")) >= 5 /\ ~IsRecordLine(lines[n])
    /\ \E n \in 1..Len(lines) :
          IsRecordLine(lines[n]) /\ contains(split(lines[n], "|")[4], <<"Z">>)

(* C3: each commit is counted under, and each note is pitched for, the     *)
(* earliest category of release > fix > feature > merge > test that has a  *)
(* keyword in the lower-cased message, and other exactly when none has.    *)
C3_FirstMatchWins ==
    LET first == [n \in 1..Len(commits) |-> FirstMatch(commits[n].message)]
    IN  /\ \A t \in SixTypes :
              CountOf(stats.commit_types, t) = Cardinality({n \in 1..Len(commits) : first[n] = t})
        /\ MusicBuilt =>
              \A kn \in AllNotes : NoteAt(kn).pitch = note_map(FirstMatch(CommitOfNote(kn).message))

\* a message with both release and fix, one with both fix and add, and one
\* with no keyword, all counted and all turned into notes
C3_Witness ==
    /\ MusicBuilt
    /\ \E n \in 1..Len(commits) :
          {1, 2} \subseteq Matching(commits[n].message)
    /\ \E n \in 1..Len(commits) :
          Matching(commits[n].message) = {2, 3}
    /\ \E n \in 1..Len(commits) : Matching(commits[n].message) = {}
    /\ TotalNotes(Movements) = Len(commits)

C6_InstrumentByFirstAppearance ==
    /\ \A n \in 1..Len(commits) : Has(stats.authors, commits[n].author)
    /\ MusicBuilt =>
          \A kn \in AllNotes :
              NoteAt(kn).instrument
                 = instruments[(AuthorIndex(CommitOfNote(kn).author) % Len(instruments)) + 1]

\* more than 5 authors: the sixth plays the piano again, and one author has
\* two notes
C6_Witness ==
    /\ MusicBuilt
    /\ Len(stats.authors) > Len(instruments)
    /\ \E kn \in AllNotes :
          /\ AuthorIndex(CommitOfNote(kn).author) = Len(instruments)
          /\ NoteAt(kn).instrument = "piano"
    /\ \E kn, ko \in AllNotes :
          kn # ko /\ CommitOfNote(kn).author = CommitOfNote(ko).author
          /\ NoteAt(kn).instrument = "violin"

(* C7 as stated: on an accumulator with every mapping and release_history  *)
(* empty the report is produced without error and has none of the lines    *)
(* Brightest Day, Recent Activity, Hottest File.                           *)
C7_OmitsThreeFacts ==
    (stats = EmptyStats /\ pc \in {"done", "crashed"}) =>
        /\ pc = "done"
        /\ err = "none"
        /\ ~ReportHas("Brightest Day")
        /\ ~ReportHas("Recent Activity")
        /\ ~ReportHas("Hottest File")

(* C7 amended: on such an accumulator the report is produced without       *)
(* error, has neither the Brightest Day nor the Hottest File line, and has *)
(* the Recent Activity line with an average of 0.                          *)
C7_OmitsTwoFacts ==
    (stats = EmptyStats /\ pc \in {"done", "crashed"}) =>
        /\ pc = "done"
        /\ err = "none"
        /\ ~ReportHas("Brightest Day")
        /\ ~ReportHas("Hottest File")
        /\ \E k \in 1..Len(report) :
              report[k] = [text |-> "Recent Activity", args |-> <<Frac(0, 1)>>]

\* the report of a log without any record
C7_Witness ==
    /\ pc = "done"
    /\ stats = EmptyStats
    /\ Len(lines) >= 2
    /\ ReportHas("COSMIC FACTS:")

(* C8 as stated: once the scores are computed, productivity_score has the  *)
(* keys of commits_by_day, the score of a day is count * 30 / (30 + age),  *)
(* the factor is 1 at age 0, and of two days the older has the strictly    *)
(* smaller factor, so with equal counts never the higher score.            *)
C8_ScoreDecaysWithAge ==
    AnalysisReturned =>
        /\ Keys(stats.productivity_score) = Keys(stats.commits_by_day)
        /\ \A k \in 1..Len(stats.commits_by_day) :
              LET day == stats.commits_by_day[k][1]
                  count == stats.commits_by_day[k][2]
              IN  /\ Get(stats.productivity_score, day) = Frac(count * 30, 30 + AgeOf(day))
                  /\ AgeOf(day) = 0 => Get(stats.productivity_score, day) = Frac(count, 1)
        /\ \A a, b \in 1..Len(stats.commits_by_day) :
              LET older == stats.commits_by_day[a]
                  newer == stats.commits_by_day[b]
              IN  (AgeOf(older[1]) > AgeOf(newer[1]) /\ older[2] = newer[2]) =>
                      FracLess(Get(stats.productivity_score, older[1]),
                               Get(stats.productivity_score, newer[1]))

(* C9 as stated: whatever days the log holds, days after today included,   *)
(* the productivity loop raises nothing and every weight it assigns is     *)
(* strictly positive.                                                      *)
C9_ScoringNeverFails ==
    /\ err = "none"
    /\ \A k \in 1..Len(stats.productivity_score) :
          FracLess(Frac(0, 1), stats.productivity_score[k][2])

(* C10: the type the aggregation counts a commit under is the type its     *)
(* note is made for: a note is long (1) and loud (100) exactly when its    *)
(* pitch is the release pitch, else 0.5 and 80; and when the log spans at  *)
(* most 10 weeks the notes of each pitch number commit_types of that type  *)
(* and the long notes number the entries of release_history.               *)
C10_ChainsAgree ==
    MusicBuilt =>
        /\ \A kn \in AllNotes :
              /\ NoteAt(kn).pitch = note_map(ClassifyCommit(CommitOfNote(kn).message))
              /\ IF NoteAt(kn).pitch = note_map("release")
                 THEN NoteAt(kn).duration = Frac(1, 1) /\ NoteAt(kn).velocity = 100
                 ELSE NoteAt(kn).duration = Frac(1, 2) /\ NoteAt(kn).velocity = 80
        /\ Cardinality(WeekLabels) <= KeptWeeks =>
              /\ \A t \in SixTypes :
                    Cardinality({kn \in AllNotes : NoteAt(kn).pitch = note_map(t)})
                       = CountOf(stats.commit_types, t)
              /\ Cardinality({kn \in AllNotes : NoteAt(kn).duration = Frac(1, 1)})
                    = Len(stats.release_history)

\* at most 10 weeks, with a release by 'version', a fix that also says add
\* and a commit of no keyword among the notes
C10_Witness ==
    /\ MusicBuilt
    /\ Cardinality(WeekLabels) <= KeptWeeks
    /\ Len(stats.release_history) >= 1
    /\ \E n \in 1..Len(commits) :
          contains(lower(commits[n].message), <<"v", "e", "r", "s", "i", "o", "n">>)
    /\ \E kn \in AllNotes : NoteAt(kn).pitch = "F4" /\ contains(lower(CommitOfNote(kn).message), <<"a", "d", "d">>)
    /\ \E kn \in AllNotes : NoteAt(kn).pitch = "C4"
    /\ Len(stats.commit_types) >= 4

====
